---- MODULE Spec2Model ----
(***************************************************************************)
(* Task/partner preference strategies of the Community simulation:         *)
(*   teams/team_3/preferences.py  (heuristic ranker, phases I and II)      *)
(*   teams/team_6/preferences.py  (optimal assignment solver)              *)
(*   teams/team_9/preferences.py  (heuristic ranker, phases I and II)      *)
(*                                                                         *)
(* Every entry point is a pure function of the community snapshot it is    *)
(* handed.  The state is that snapshot (members, tasks, the calling        *)
(* player), the entry point called last and what it returned.              *)
(*                                                                         *)
(* Python floats are modelled as exact rationals <<numerator,              *)
(* denominator>> with a positive denominator; the float literals of the    *)
(* source (0.25, 0.5, 0.6, 0.7, 1.5) are the rationals they denote.  List  *)
(* indices returned to the caller are 0-based, as in the source; TLA+      *)
(* sequences are 1-based, so position k of a sequence is index k - 1.      *)
(***************************************************************************)
EXTENDS Integers, Sequences, FiniteSets, TLC

VARIABLES
    members,         \* community.members: sequence of Member records
    tasks,           \* community.tasks: sequence of difficulty vectors
    player,          \* position in members of the calling player
    pc,              \* "ready": no call in progress; "returned": ret holds a result
    op,              \* the entry point called last
    ret,             \* [raised |-> exception reached the caller, value |-> returned value]
    selected_tasks   \* team_3 phaseIIpreferences: selected_tasks before the final shuffle

vars == <<members, tasks, player, pc, op, ret, selected_tasks>>

----------------------------------------------------------------------------
(* Bounds of the model.                                                    *)

MaxMembers == 2         \* Spec: members of a community
MaxTasks == 2           \* Spec: tasks of a community
MaxLevel == 1           \* Spec: largest ability and difficulty
MaxPhaseITasks == 5     \* SpecPhaseI: tasks of a community
MaxPhaseIITasks == 7    \* SpecPhaseII: tasks of a community
MaxCostDims == 2        \* SpecCost: length of the vectors
MaxLossLevel == 2       \* SpecLoss: largest ability and difficulty
MaxCostLevel == 2       \* SpecCost: largest ability and difficulty

----------------------------------------------------------------------------
(* Exact rational arithmetic standing for Python float arithmetic.         *)

RInt(n) == <<n, 1>>
RAdd(a, b) == <<a[1] * b[2] + b[1] * a[2], a[2] * b[2]>>
RSub(a, b) == <<a[1] * b[2] - b[1] * a[2], a[2] * b[2]>>
RMul(a, b) == <<a[1] * b[1], a[2] * b[2]>>
RDivInt(a, k) == <<a[1], a[2] * k>>
RLt(a, b) == a[1] * b[2] < b[1] * a[2]
RLe(a, b) == a[1] * b[2] <= b[1] * a[2]
REq(a, b) == a[1] * b[2] = b[1] * a[2]
RMax(a, b) == IF RLt(a, b) THEN b ELSE a
RMin(a, b) == IF RLt(b, a) THEN b ELSE a

Max(a, b) == IF a < b THEN b ELSE a
Min(a, b) == IF b < a THEN b ELSE a

RECURSIVE SumTo(_, _)
\* sum(f[i] for i in range(n)) over integers
SumTo(f, n) == IF n = 0 THEN 0 ELSE SumTo(f, n - 1) + f[n]

RECURSIVE RSumTo(_, _)
\* the same sum over rationals
RSumTo(f, n) == IF n = 0 THEN RInt(0) ELSE RAdd(RSumTo(f, n - 1), f[n])

----------------------------------------------------------------------------
(* list.sort / sorted: stable; with reverse=True equal keys keep their     *)
(* original order too.  Elements are records with a field key.             *)

RECURSIVE InsertDesc(_, _)
InsertDesc(s, x) ==
    IF s = <<>> THEN <<x>>
    ELSE IF RLt(Head(s).key, x.key) THEN <<x>> \o s
    ELSE <<Head(s)>> \o InsertDesc(Tail(s), x)

RECURSIVE SortDesc(_)
\* sort(key=..., reverse=True) on rational keys
SortDesc(s) ==
    IF s = <<>> THEN <<>>
    ELSE InsertDesc(SortDesc(SubSeq(s, 1, Len(s) - 1)), s[Len(s)])

\* (a1, a2) < (b1, b2) on tuples of integers
PairLt(a, b) == a[1] < b[1] \/ (a[1] = b[1] /\ a[2] < b[2])

RECURSIVE InsertAsc(_, _)
InsertAsc(s, x) ==
    IF s = <<>> THEN <<x>>
    ELSE IF PairLt(x.key, s[Len(s)].key)
         THEN InsertAsc(SubSeq(s, 1, Len(s) - 1), x) \o <<s[Len(s)]>>
         ELSE s \o <<x>>

RECURSIVE SortAsc(_)
\* sort(key=...) on keys that are pairs of integers
SortAsc(s) ==
    IF s = <<>> THEN <<>>
    ELSE InsertAsc(SortAsc(SubSeq(s, 1, Len(s) - 1)), s[Len(s)])

\* global_random.shuffle(list): any permutation of the list
Shuffle(s) ==
    {[i \in 1..Len(s) |-> s[p[i]]] : p \in Permutations(1..Len(s))}

----------------------------------------------------------------------------
(* team_3: cost model and community statistics.                            *)

\* a variant that pools the two partners by the weaker ability
calculate_partnership_cost_weaker(player_abilities, partner_abilities, task) ==
    RDivInt(RInt(SumTo([i \in 1..Len(task) |->
                Max(task[i] - Min(player_abilities[i], partner_abilities[i]), 0)],
            Len(task))), 2)

\* calculate_partnership_cost: sum(max(task[i] - max(a1[i], a2[i]), 0)) / 2
calculate_partnership_cost(player_abilities, partner_abilities, task) ==
    RDivInt(RInt(SumTo([i \in 1..Len(task) |->
                Max(task[i] - Max(player_abilities[i], partner_abilities[i]), 0)],
            Len(task))), 2)

\* calculate_solo_cost: sum(max(task[i] - abilities[i], 0))
calculate_solo_cost(player_abilities, task) ==
    SumTo([i \in 1..Len(task) |-> Max(task[i] - player_abilities[i], 0)], Len(task))

\* get_community_stats: (list of average abilities, average energy)
get_community_stats ==
    LET num_members == Len(members)
        num_abilities == Len(members[1].abilities)
    IN  [avg_abilities |->
            [i \in 1..num_abilities |->
                RDivInt(RInt(SumTo([m \in 1..num_members |-> members[m].abilities[i]],
                                   num_members)), num_members)],
         avg_energy |->
            RDivInt(RInt(SumTo([m \in 1..num_members |-> members[m].energy],
                               num_members)), num_members)]

\* calculate_task_difficulty: 1.5 x the excess over the community average,
\* the raw (negative) difference otherwise; zip stops at the shorter vector
calculate_task_difficulty(task, community_avg_abilities) ==
    LET n == Min(Len(task), Len(community_avg_abilities))
    IN  RSumTo([i \in 1..n |->
            IF RLt(community_avg_abilities[i], RInt(task[i]))
            THEN RMul(RSub(RInt(task[i]), community_avg_abilities[i]), <<3, 2>>)
            ELSE RSub(RInt(task[i]), community_avg_abilities[i])], n)

----------------------------------------------------------------------------
(* team_3 phaseIpreferences.                                               *)

\* a variant with the fixed floor only
T3EnergyTooLow_FixedFloor == RLt(RInt(members[player].energy), RInt(2))

\* line 84: player.energy < max(2, community_avg_energy * 0.25)
T3EnergyTooLow ==
    RLt(RInt(members[player].energy),
        RMax(RInt(2), RMul(get_community_stats.avg_energy, <<1, 4>>)))

\* lines 88-89: max(1, min(3, len(tasks) / len(members) * 0.5))
T3PhaseIReserve ==
    LET tasks_per_player == RDivInt(RInt(Len(tasks)), Len(members))
    IN  RMax(RInt(1), RMin(RInt(3), RMul(tasks_per_player, <<1, 2>>)))

\* a variant whose 60% test is not strict
T3Accepts_NotStrict(task, partner) ==
    LET me == members[player]
        min_energy_reserve == T3PhaseIReserve
        energy_cost == calculate_partnership_cost(me.abilities, partner.abilities, task)
        solo_cost == SumTo([i \in 1..Len(task) |-> Max(task[i] - me.abilities[i], 0)],
                           Len(task))
    IN  /\ ~(partner.id = me.id \/ RLt(RInt(partner.energy), min_energy_reserve))
        /\ RLt(energy_cost,
               RMin(RSub(RInt(me.energy), min_energy_reserve),
                    RSub(RInt(partner.energy), min_energy_reserve)))
        /\ RLe(energy_cost, RMul(RInt(solo_cost), <<3, 5>>))

\* a variant that budgets the caller's energy only
T3Accepts_OwnEnergyOnly(task, partner) ==
    LET me == members[player]
        min_energy_reserve == T3PhaseIReserve
        energy_cost == calculate_partnership_cost(me.abilities, partner.abilities, task)
        solo_cost == SumTo([i \in 1..Len(task) |-> Max(task[i] - me.abilities[i], 0)],
                           Len(task))
    IN  /\ partner.id # me.id
        /\ RLt(energy_cost, RSub(RInt(me.energy), min_energy_reserve))
        /\ RLt(energy_cost, RMul(RInt(solo_cost), <<3, 5>>))

\* lines 98-119: the partner is a candidate for the task
T3Accepts(task, partner) ==
    LET me == members[player]
        min_energy_reserve == T3PhaseIReserve
        energy_cost == calculate_partnership_cost(me.abilities, partner.abilities, task)
        solo_cost == SumTo([i \in 1..Len(task) |-> Max(task[i] - me.abilities[i], 0)],
                           Len(task))
    IN  /\ ~(partner.id = me.id \/ RLt(RInt(partner.energy), min_energy_reserve))
        /\ RLt(energy_cost,
               RMin(RSub(RInt(me.energy), min_energy_reserve),
                    RSub(RInt(partner.energy), min_energy_reserve)))
        /\ RLt(energy_cost, RMul(RInt(solo_cost), <<3, 5>>))

\* lines 122-126: priority of an accepted partnership
T3Priority(task, partner) ==
    LET me == members[player]
        energy_cost == calculate_partnership_cost(me.abilities, partner.abilities, task)
        task_difficulty == calculate_task_difficulty(task, get_community_stats.avg_abilities)
    IN  RAdd(RAdd(task_difficulty, RMul(RSub(RInt(10), energy_cost), RInt(2))),
             RMul(RInt(Min(me.energy, partner.energy)), <<1, 2>>))

RECURSIVE T3PartnerList(_, _)
\* lines 97-128: partnerships[task_index], members m..end still to visit
T3PartnerList(task, m) ==
    IF m > Len(members) THEN <<>>
    ELSE (IF T3Accepts(task, members[m])
          THEN <<[id |-> members[m].id, key |-> T3Priority(task, members[m])]>>
          ELSE <<>>) \o T3PartnerList(task, m + 1)

RECURSIVE T3Choices(_)
\* lines 131-137: per task the two partners of highest priority
T3Choices(t) ==
    IF t > Len(tasks) THEN <<>>
    ELSE LET partner_list == SortDesc(T3PartnerList(tasks[t], 1))
             top == SubSeq(partner_list, 1, Min(2, Len(partner_list)))
         IN  [k \in 1..Len(top) |-> <<t - 1, top[k].id>>] \o T3Choices(t + 1)

\* list_choices before the final shuffle
T3PhaseIList == IF T3EnergyTooLow THEN <<>> ELSE T3Choices(1)

Returned(v) == [raised |-> FALSE, value |-> v]
Raised == [raised |-> TRUE, value |-> <<>>]

T3PhaseI ==
    /\ pc = "ready"
    /\ \E out \in Shuffle(T3PhaseIList) :
          ret' = Returned(out)
    /\ pc' = "returned"
    /\ op' = "team_3.phaseIpreferences"
    /\ UNCHANGED <<members, tasks, player, selected_tasks>>

----------------------------------------------------------------------------
(* team_3 phaseIIpreferences.                                              *)

\* get_task_completion_rate: len(tasks) / (2 * len(members))
get_task_completion_rate == RDivInt(RInt(Len(tasks)), 2 * Len(members))

\* line 229: max(1, min(3, completion_rate))
T3PhaseIIReserve == RMax(RInt(1), RMin(RInt(3), get_task_completion_rate))

\* lines 221-225: community average abilities
T3AvgAbilities ==
    [i \in 1..Len(members[player].abilities) |->
        RDivInt(RInt(SumTo([m \in 1..Len(members) |-> members[m].abilities[i]],
                           Len(members))), Len(members))]

\* evaluate_task_suitability: (suitability, energy_cost); both quotients
\* raise ZeroDivisionError on a zero divisor
evaluate_task_suitability(me, task, community_avg_abilities) ==
    LET energy_cost == calculate_solo_cost(me.abilities, task)
        met == Cardinality({i \in 1..Len(task) : me.abilities[i] >= task[i]})
        required == Cardinality({i \in 1..Len(task) : task[i] > 0})
    IN  IF Len(task) = 0 \/ required = 0
        THEN [raised |-> TRUE, suitability |-> RInt(0), energy_cost |-> energy_cost]
        ELSE LET ability_match == <<met, Len(task)>>
                 relative_strength ==
                     RDivInt(RSumTo([i \in 1..Len(task) |->
                                 IF task[i] > 0
                                 THEN RSub(RInt(me.abilities[i]), community_avg_abilities[i])
                                 ELSE RInt(0)], Len(task)), required)
                 suitability ==
                     RAdd(RAdd(RInt((10 - energy_cost) * 2), RMul(ability_match, RInt(5))),
                          RMul(relative_strength, RInt(3)))
             IN  [raised |-> FALSE, suitability |-> suitability, energy_cost |-> energy_cost]

\* a variant without the 70% ceiling
T3Considers_NoCeiling(ev) ==
    LET me == members[player]
        available_energy == RSub(RInt(me.energy), T3PhaseIIReserve)
    IN  /\ RLt(RInt(ev.energy_cost), available_energy)
        /\ RLt(RInt(0), ev.suitability)

\* lines 249-253: the task is kept as a candidate
T3Considers(ev) ==
    LET me == members[player]
        available_energy == RSub(RInt(me.energy), T3PhaseIIReserve)
    IN  /\ RLt(RInt(ev.energy_cost), available_energy)
        /\ RLt(RInt(0), ev.suitability)
        /\ RLe(RInt(ev.energy_cost), RMul(RInt(me.energy), <<7, 10>>))

RECURSIVE T3Evaluations(_)
\* lines 239-255: task_evaluations in task order, tasks t..end still to visit
T3Evaluations(t) ==
    IF t > Len(tasks) THEN <<>>
    ELSE LET ev == evaluate_task_suitability(members[player], tasks[t], T3AvgAbilities)
         IN  (IF T3Considers(ev)
              THEN <<[task_index |-> t - 1, key |-> ev.suitability,
                      energy_cost |-> ev.energy_cost]>>
              ELSE <<>>) \o T3Evaluations(t + 1)

\* some evaluation raises: the loop visits every task
T3EvaluationRaises ==
    \E t \in 1..Len(tasks) :
        evaluate_task_suitability(members[player], tasks[t], T3AvgAbilities).raised

RECURSIVE T3Select(_, _, _)
\* lines 261-271: greedy acceptance under the running budget, with the early break
T3Select(evals, k, remaining_energy) ==
    IF k > Len(evals) THEN <<>>
    ELSE IF RLe(RInt(evals[k].energy_cost), remaining_energy)
         THEN LET left == RSub(remaining_energy, RInt(evals[k].energy_cost))
              IN  <<evals[k].task_index>> \o
                  (IF RLt(left, T3PhaseIIReserve) THEN <<>>
                   ELSE T3Select(evals, k + 1, left))
         ELSE T3Select(evals, k + 1, remaining_energy)

\* selected_tasks before the shuffle (no evaluation raises)
T3Selected ==
    T3Select(SortDesc(T3Evaluations(1)), 1,
             RSub(RInt(members[player].energy), T3PhaseIIReserve))

\* a variant that rounds the third up
T3GroupSize_RoundedUp(n) == (n + 2) \div 3

\* line 276: group_size = max(1, len(selected_tasks) // 3)
T3GroupSize(n) == Max(1, n \div 3)

RECURSIVE ShuffleGroups(_, _)
\* lines 277-280: shuffle each slice s[i : i + group_size] in place
ShuffleGroups(s, group_size) ==
    IF Len(s) <= group_size THEN Shuffle(s)
    ELSE {g \o rest : g \in Shuffle(SubSeq(s, 1, group_size)),
                      rest \in ShuffleGroups(SubSeq(s, group_size + 1, Len(s)), group_size)}

T3PhaseII ==
    /\ pc = "ready"
    /\ IF RLt(RInt(members[player].energy), RMul(T3PhaseIIReserve, RInt(2)))
       THEN ret' = Returned(<<>>) /\ selected_tasks' = <<>>
       ELSE IF T3EvaluationRaises
       THEN ret' = Raised /\ selected_tasks' = <<>>
       ELSE LET selected == T3Selected
            IN  /\ selected_tasks' = selected
                /\ \E out \in ShuffleGroups(selected, T3GroupSize(Len(selected))) :
                      ret' = Returned(out)
    /\ pc' = "returned"
    /\ op' = "team_3.phaseIIpreferences"
    /\ UNCHANGED <<members, tasks, player>>

----------------------------------------------------------------------------
(* team_9 phaseIpreferences and phaseIIpreferences.                        *)

\* all(task[i] <= abilities[i] for i in range(len(task)))
CanCompleteAlone(abilities, task) == \A i \in 1..Len(task) : task[i] <= abilities[i]

RECURSIVE T9BestPartner(_, _, _)
\* lines 17-35: best is [found, id, remaining]; members m..end still to visit
T9BestPartner(task, m, best) ==
    IF m > Len(members) THEN best
    ELSE LET me == members[player]
             partner == members[m]
             energy_cost ==
                 RDivInt(RInt(SumTo([i \in 1..Len(task) |->
                     Max(task[i] - Max(me.abilities[i], partner.abilities[i]), 0)],
                     Len(task))), 2)
             player_remaining_energy == RSub(RInt(me.energy), energy_cost)
             partner_remaining_energy == RSub(RInt(partner.energy), energy_cost)
             lower == RMin(player_remaining_energy, partner_remaining_energy)
         IN  IF partner.id = me.id \/ partner.incapacitated
                THEN T9BestPartner(task, m + 1, best)
             ELSE IF CanCompleteAlone(partner.abilities, task)
                THEN T9BestPartner(task, m + 1, best)
             ELSE IF /\ RLt(RInt(0), player_remaining_energy)
                     /\ RLt(RInt(0), partner_remaining_energy)
                     /\ (~best.found \/ RLt(best.remaining, lower))
                THEN T9BestPartner(task, m + 1,
                        [found |-> TRUE, id |-> partner.id, remaining |-> lower])
             ELSE T9BestPartner(task, m + 1, best)

\* line 7: sorted(enumerate(tasks), key=sum of difficulties, reverse=True)
T9SortedTasks ==
    SortDesc([t \in 1..Len(tasks) |->
        [task_id |-> t - 1, task |-> tasks[t],
         key |-> RInt(SumTo(tasks[t], Len(tasks[t])))]])

RECURSIVE T9Preferences(_, _)
\* lines 9-39
T9Preferences(sorted_tasks, k) ==
    IF k > Len(sorted_tasks) THEN <<>>
    ELSE LET task == sorted_tasks[k].task
             best == T9BestPartner(task, 1,
                        [found |-> FALSE, id |-> -1, remaining |-> RInt(0)])
         IN  (IF ~CanCompleteAlone(members[player].abilities, task) /\ best.found
              THEN <<(<<sorted_tasks[k].task_id, best.id>>)>>
              ELSE <<>>) \o T9Preferences(sorted_tasks, k + 1)

T9PhaseI ==
    /\ pc = "ready"
    /\ ret' = Returned(T9Preferences(T9SortedTasks, 1))
    /\ pc' = "returned"
    /\ op' = "team_9.phaseIpreferences"
    /\ UNCHANGED <<members, tasks, player, selected_tasks>>

RECURSIVE T9SoloCandidates(_)
\* lines 49-55: (task_id, energy_cost, remaining_energy) with remaining_energy > 0
T9SoloCandidates(t) ==
    IF t > Len(tasks) THEN <<>>
    ELSE LET energy_cost == SumTo([i \in 1..Len(tasks[t]) |->
                                Max(tasks[t][i] - members[player].abilities[i], 0)],
                                Len(tasks[t]))
             remaining_energy == members[player].energy - energy_cost
         IN  (IF remaining_energy > 0
              THEN <<[task_id |-> t - 1, key |-> <<energy_cost, -remaining_energy>>]>>
              ELSE <<>>) \o T9SoloCandidates(t + 1)

T9PhaseII ==
    /\ pc = "ready"
    /\ LET preferences == SortAsc(T9SoloCandidates(1))
       IN  ret' = Returned([k \in 1..Len(preferences) |-> preferences[k].task_id])
    /\ pc' = "returned"
    /\ op' = "team_9.phaseIIpreferences"
    /\ UNCHANGED <<members, tasks, player, selected_tasks>>

----------------------------------------------------------------------------
(* team_6: losses, cost matrices and the assignment solver.                *)

\* line 5
PHASE_1_ASSIGNMENTS == FALSE

Abs(x) == IF x < 0 THEN -x ELSE x

\* a variant that starts from the split cost, half the unmet difficulty
loss_phase1_split(task, player1, player2) ==
    LET n == Len(task)
        cost == RDivInt(RInt(SumTo([k \in 1..n |->
                    Max(task[k] - Max(player1.abilities[k], player2.abilities[k]), 0)], n)), 2)
        overdraft == RDivInt(RMax(RInt(0),
                        RSub(cost, RInt(player1.energy + player2.energy))), 2)
        overshoot == SumTo([k \in 1..n |->
                    Max(Max(player1.abilities[k], player2.abilities[k]) - task[k], 0)], n)
        mismatch == SumTo([k \in 1..n |->
                    Abs(player1.abilities[k] - player2.abilities[k])], n)
    IN  RAdd(RAdd(RAdd(cost, overdraft), RInt(overshoot)), RInt(mismatch))

\* loss_phase1: unmet difficulty of the pair, plus half the overdraft over the
\* two energies, plus the pair's overshoot, plus the ability mismatch
loss_phase1(task, player1, player2) ==
    LET n == Len(task)
        unmet == SumTo([k \in 1..n |->
                    Max(task[k] - Max(player1.abilities[k], player2.abilities[k]), 0)], n)
        overdraft == RDivInt(RInt(Max(0, unmet - player1.energy - player2.energy)), 2)
        overshoot == SumTo([k \in 1..n |->
                    Max(Max(player1.abilities[k], player2.abilities[k]) - task[k], 0)], n)
        mismatch == SumTo([k \in 1..n |->
                    Abs(player1.abilities[k] - player2.abilities[k])], n)
    IN  RAdd(RAdd(RAdd(RInt(unmet), overdraft), RInt(overshoot)), RInt(mismatch))

\* loss_phase2: solo cost plus the overdraft over the current energy
loss_phase2(task, abilities, current_energy) ==
    LET cost == SumTo([k \in 1..Len(abilities) |-> Max(task[k] - abilities[k], 0)],
                      Len(abilities))
    IN  RInt(cost + Max(0, cost - current_energy))

RECURSIVE Filled(_, _)
\* the array whose entries 0..n-1 were assigned f[1]..f[n]
Filled(f, n) == IF n = 0 THEN <<>> ELSE Append(Filled(f, n - 1), f[n])

RECURSIVE PairsFrom(_, _, _)
\* lines 68-71: (i, j) for i < j in lexicographic order, as positions in members
PairsFrom(i, j, n) ==
    IF i >= n THEN <<>>
    ELSE IF j > n THEN PairsFrom(i + 1, i + 2, n)
    ELSE <<(<<i, j>>)>> \o PairsFrom(i, j + 1, n)

Partnerships == PairsFrom(1, 2, Len(members))

\* lines 75-89: rows are tasks; columns are the partnerships, then the members
Phase1CostMatrix ==
    LET num_partnerships == Len(Partnerships)
        num_columns == num_partnerships + Len(members)
    IN  Filled([i \in 1..Len(tasks) |->
            Filled([j \in 1..num_columns |->
                IF j <= num_partnerships
                THEN loss_phase1(tasks[i], members[Partnerships[j][1]],
                                 members[Partnerships[j][2]])
                ELSE loss_phase2(tasks[i], members[j - num_partnerships].abilities,
                                 members[j - num_partnerships].energy)],
                num_columns)], Len(tasks))

\* lines 123-127: rows are tasks, columns are the members
Phase2CostMatrix ==
    Filled([i \in 1..Len(tasks) |->
        Filled([j \in 1..Len(members) |->
            loss_phase2(tasks[i], members[j].abilities, members[j].energy)],
            Len(members))], Len(tasks))

\* The matchings of min(rows, cols) rows to distinct columns: functions from
\* the matched rows to their columns.
Matchings(rows, cols) ==
    LET size == Min(rows, cols)
    IN  UNION { {m \in [S -> 1..cols] : \A r1, r2 \in S : m[r1] = m[r2] => r1 = r2}
                : S \in {R \in SUBSET (1..rows) : Cardinality(R) = size} }

RECURSIVE MatchingCostTo(_, _, _)
\* sum(cost_matrix[row_indices[i], col_indices[i]]) over the matched rows 1..r
MatchingCostTo(cost_matrix, m, r) ==
    IF r = 0 THEN RInt(0)
    ELSE IF r \in DOMAIN m
         THEN RAdd(MatchingCostTo(cost_matrix, m, r - 1), cost_matrix[r][m[r]])
         ELSE MatchingCostTo(cost_matrix, m, r - 1)

RECURSIVE MatchingCostByPositionTo(_, _, _)
\* a variant that reads the i-th matched cell from row i of the matrix, not
\* from row row_indices[i]
MatchingCostByPositionTo(cost_matrix, m, r) ==
    IF r = 0 THEN RInt(0)
    ELSE IF r \in DOMAIN m
         THEN RAdd(MatchingCostByPositionTo(cost_matrix, m, r - 1),
                   cost_matrix[Cardinality({x \in DOMAIN m : x <= r})][m[r]])
         ELSE MatchingCostByPositionTo(cost_matrix, m, r - 1)

MatchingCost_ByPosition(cost_matrix, m, rows) ==
    MatchingCostByPositionTo(cost_matrix, m, rows)

\* lines 112-114: total_cost
MatchingCost(cost_matrix, m, rows) == MatchingCostTo(cost_matrix, m, rows)

RECURSIVE SolverCostTo(_, _, _)
\* the objective of the solver: the cells of the matched rows 1..r, summed
SolverCostTo(cost_matrix, m, r) ==
    IF r = 0 THEN RInt(0)
    ELSE IF r \in DOMAIN m
         THEN RAdd(SolverCostTo(cost_matrix, m, r - 1), cost_matrix[r][m[r]])
         ELSE SolverCostTo(cost_matrix, m, r - 1)

\* linear_sum_assignment is scipy's, and its code is not part of the
\* repository.  It is modelled from the specification, "solves the
\* rectangular minimum-cost bipartite matching", each column matched to at
\* most one task: a matching of min(rows, cols) rows of minimum total cost.
\* Which of several optimal matchings it returns is not specified: all of
\* them.
linear_sum_assignment(cost_matrix, rows, cols) ==
    LET all == Matchings(rows, cols)
        totals == {SolverCostTo(cost_matrix, m, rows) : m \in all}
        best == CHOOSE c \in totals : \A d \in totals : RLe(c, d)
    IN  {m \in all : REq(SolverCostTo(cost_matrix, m, rows), best)}

RECURSIVE Phase1AssignmentsFrom(_, _, _)
\* lines 95-110: ([ids], task, loss) per matched row, in row order
Phase1AssignmentsFrom(cost_matrix, m, r) ==
    IF r > Len(tasks) THEN <<>>
    ELSE IF r \notin DOMAIN m THEN Phase1AssignmentsFrom(cost_matrix, m, r + 1)
    ELSE LET num_partnerships == Len(Partnerships)
             col == m[r]
             ids == IF col <= num_partnerships
                    THEN <<members[Partnerships[col][1]].id,
                           members[Partnerships[col][2]].id>>
                    ELSE <<members[col - num_partnerships].id>>
         IN  <<[ids |-> ids, task |-> tasks[r], loss |-> cost_matrix[r][col]]>>
             \o Phase1AssignmentsFrom(cost_matrix, m, r + 1)

\* assign_phase1: the (assignments, total_cost) pairs it can return
assign_phase1 ==
    LET cost_matrix == Phase1CostMatrix
        cols == Len(Partnerships) + Len(members)
    IN  {[assignments |-> Phase1AssignmentsFrom(cost_matrix, m, 1),
          total_cost |-> MatchingCost(cost_matrix, m, Len(tasks))]
         : m \in linear_sum_assignment(cost_matrix, Len(tasks), cols)}

\* assign_phase2: the ({player: task}, total_cost) pairs it can return; the
\* dictionary maps a member's 0-based position to a task's 0-based position
assign_phase2 ==
    LET cost_matrix == Phase2CostMatrix
    IN  {[assignments |->
             [c \in {m[r] - 1 : r \in DOMAIN m} |->
                 (CHOOSE r \in DOMAIN m : m[r] - 1 = c) - 1],
          total_cost |-> MatchingCost(cost_matrix, m, Len(tasks))]
         : m \in linear_sum_assignment(cost_matrix, Len(tasks), Len(members))}

\* tasks.index(task): the 0-based position of the first equal task
TaskIndex(task) == (CHOOSE k \in 1..Len(tasks) :
                        tasks[k] = task /\ \A j \in 1..(k - 1) : tasks[j] # task) - 1

RECURSIVE T6Matches(_, _)
\* lines 20-29: one entry per task equal to the assigned task
T6Matches(assignment, t) ==
    IF t > Len(tasks) THEN <<>>
    ELSE (IF tasks[t] = assignment.task
          THEN <<(<<TaskIndex(tasks[t]),
                    IF members[player].id = assignment.ids[1]
                    THEN assignment.ids[2] ELSE assignment.ids[1]>>)>>
          ELSE <<>>) \o T6Matches(assignment, t + 1)

RECURSIVE T6Choices(_, _)
\* lines 18-29: the partnerships of the solution that hold the player
T6Choices(assignments, k) ==
    IF k > Len(assignments) THEN <<>>
    ELSE (IF /\ Len(assignments[k].ids) = 2
             /\ \E x \in 1..2 : assignments[k].ids[x] = members[player].id
          THEN T6Matches(assignments[k], 1)
          ELSE <<>>) \o T6Choices(assignments, k + 1)

\* team_6 phaseIpreferences: exceptions are caught and printed
T6PhaseI ==
    /\ pc = "ready"
    /\ IF PHASE_1_ASSIGNMENTS
       THEN \E solved \in assign_phase1 :
               ret' = Returned(T6Choices(solved.assignments, 1))
       ELSE ret' = Returned(<<>>)
    /\ pc' = "returned"
    /\ op' = "team_6.phaseIpreferences"
    /\ UNCHANGED <<members, tasks, player, selected_tasks>>

\* lines 47-57 for one solution of assign_phase2
T6Bid(solved) ==
    LET me == members[player]
        player_index == player - 1
    IN  IF player_index \notin DOMAIN solved.assignments THEN <<>>
        ELSE LET best_task == solved.assignments[player_index]
                 best_task_cost == loss_phase2(tasks[best_task + 1], me.abilities, me.energy)
             IN  IF RLt(RSub(RInt(me.energy), best_task_cost), RInt(0))
                 THEN <<>>
                 ELSE <<best_task>>

\* team_6 phaseIIpreferences: exceptions are caught and printed
T6PhaseII ==
    /\ pc = "ready"
    /\ IF members[player].energy < 0
       THEN ret' = Returned(<<>>)
       ELSE \E solved \in assign_phase2 : ret' = Returned(T6Bid(solved))
    /\ pc' = "returned"
    /\ op' = "team_6.phaseIIpreferences"
    /\ UNCHANGED <<members, tasks, player, selected_tasks>>

\* assign_phase1(community.tasks, community.members) called on its own
AssignPhase1 ==
    /\ pc = "ready"
    /\ \E solved \in assign_phase1 : ret' = Returned(solved)
    /\ pc' = "returned"
    /\ op' = "team_6.assign_phase1"
    /\ UNCHANGED <<members, tasks, player, selected_tasks>>

\* calculate_partnership_cost and calculate_solo_cost applied to the first task
\* and the abilities of the first two members
CostCall ==
    /\ pc = "ready"
    /\ Len(members) >= 2 /\ Len(tasks) >= 1
    /\ ret' = Returned(
          [partnership |-> calculate_partnership_cost(members[1].abilities,
                                                      members[2].abilities, tasks[1]),
           solo1 |-> calculate_solo_cost(members[1].abilities, tasks[1]),
           solo2 |-> calculate_solo_cost(members[2].abilities, tasks[1])])
    /\ pc' = "returned"
    /\ op' = "team_3.costs"
    /\ UNCHANGED <<members, tasks, player, selected_tasks>>

\* loss_phase1 applied to the first task and the first two members
LossCall ==
    /\ pc = "ready"
    /\ Len(members) >= 2 /\ Len(tasks) >= 1
    /\ ret' = Returned(loss_phase1(tasks[1], members[1], members[2]))
    /\ pc' = "returned"
    /\ op' = "team_6.loss_phase1"
    /\ UNCHANGED <<members, tasks, player, selected_tasks>>

----------------------------------------------------------------------------
(* The orchestrator takes the result and is ready for the next call.       *)

NextCall ==
    /\ pc = "returned"
    /\ pc' = "ready"
    /\ op' = "none"
    /\ ret' = Returned(<<>>)
    /\ selected_tasks' = <<>>
    /\ UNCHANGED <<members, tasks, player>>

----------------------------------------------------------------------------
(* Community snapshots.  All ability and difficulty vectors of a snapshot  *)
(* have one length; energies are integers below 90, where the float        *)
(* products with 0.7 and 0.6 compare as the exact ones do; wherever the    *)
(* code divides by the member count or by a vector length, that divisor is *)
(* 1, 2 or 4, so that every quotient is a dyadic rational, which a float   *)
(* holds exactly.  A member's id is its 0-based position.                  *)

Dims == {1, 2}
Levels == 0..MaxLevel
Vectors == [Dims -> Levels]
Energies == {-1, 1, 2, 4, 16}

Member(i, a, e, inc) == [id |-> i - 1, abilities |-> a, energy |-> e, incapacitated |-> inc]

Communities(sizes, abil, ener, flags) ==
    UNION {
      { [i \in 1..n |-> Member(i, a[i], e[i], f[i])] :
            a \in [1..n -> abil], e \in [1..n -> ener], f \in [1..n -> flags] }
      : n \in sizes }

TaskLists(nmax, vecs) == UNION { [1..n -> vecs] : n \in 0..nmax }

Idle ==
    /\ pc = "ready"
    /\ op = "none"
    /\ ret = Returned(<<>>)
    /\ selected_tasks = <<>>

\* Small communities, every entry point.
Init ==
    /\ members \in Communities(1..MaxMembers, Vectors, Energies, BOOLEAN)
    /\ tasks \in TaskLists(MaxTasks, Vectors)
    /\ player \in 1..Len(members)
    /\ Idle

Next ==
    \/ T3PhaseI
    \/ T3PhaseII
    \/ T9PhaseI
    \/ T9PhaseII
    \/ T6PhaseI
    \/ T6PhaseII
    \/ NextCall

Spec == Init /\ [][Next]_vars

\* Phase I of the heuristic rankers: a caller and one candidate partner, and
\* enough tasks for the energy reserve of team_3 to leave its floor of 1.
PhaseIAbilities == {<<0, 0>>, <<2, 0>>, <<1, 2>>}
PhaseIEnergies == {1, 2, 16}
PhaseITaskVectors == {<<2, 2>>, <<1, 0>>}

InitPhaseI ==
    /\ members \in Communities({2}, PhaseIAbilities, PhaseIEnergies, {FALSE})
    /\ tasks \in TaskLists(MaxPhaseITasks, PhaseITaskVectors)
    /\ player \in 1..Len(members)
    /\ Idle

NextPhaseI ==
    \/ T3PhaseI
    \/ T9PhaseI
    \/ NextCall

SpecPhaseI == InitPhaseI /\ [][NextPhaseI]_vars

\* Phase II of team_3: enough tasks for the shuffle groups to hold two tasks.
\* The code reads no energy but the caller's, so the others' is fixed.
PhaseIIAbilities == {<<0, 0>>, <<1, 1>>, <<3, 0>>}
PhaseIIEnergies == {4, 7, 16}
PhaseIITaskVectors == {<<0, 2>>, <<3, 2>>}

InitPhaseII ==
    /\ members \in Communities({1, 2}, PhaseIIAbilities, PhaseIIEnergies, {FALSE})
    /\ tasks \in TaskLists(MaxPhaseIITasks, PhaseIITaskVectors)
    /\ player \in 1..Len(members)
    /\ \A m \in 1..Len(members) : m # player => members[m].energy = 16
    /\ Idle

NextPhaseII ==
    \/ T3PhaseII
    \/ NextCall

SpecPhaseII == InitPhaseII /\ [][NextPhaseII]_vars

\* The cost functions on two ability vectors and one task of equal length.
CostVectors == UNION { [1..n -> 0..MaxCostLevel] : n \in 0..MaxCostDims }

InitCost ==
    /\ \E a1, a2, t \in CostVectors :
          /\ Len(a1) = Len(t) /\ Len(a2) = Len(t)
          /\ members = <<Member(1, a1, 10, FALSE), Member(2, a2, 10, FALSE)>>
          /\ tasks = <<t>>
    /\ player = 1
    /\ Idle

NextCost ==
    \/ CostCall
    \/ NextCall

SpecCost == InitCost /\ [][NextCost]_vars

\* The assignment solver on small inputs: at most 4 tasks and 4 members.
AssignProfiles == {[abilities |-> <<0, 2>>, energy |-> 1],
                   [abilities |-> <<2, 1>>, energy |-> 10]}
AssignTaskVectors == {<<1, 1>>, <<3, 0>>}
AssignSizes == 0..4

InitAssign ==
    /\ \E n \in AssignSizes \ {0} : \E pr \in [1..n -> AssignProfiles] :
          members = [i \in 1..n |-> Member(i, pr[i].abilities, pr[i].energy, FALSE)]
    /\ \E n \in AssignSizes : tasks \in [1..n -> AssignTaskVectors]
    /\ player = 1
    /\ Idle

NextAssign ==
    \/ AssignPhase1
    \/ NextCall

SpecAssign == InitAssign /\ [][NextAssign]_vars

----------------------------------------------------------------------------
(* Properties.                                                             *)

\* loss_phase1 on one task and two members; an energy may be negative.
LossVectors == [Dims -> 0..MaxLossLevel]
LossEnergies == {-1, 0, 1, 3}

InitLoss ==
    /\ members \in Communities({2}, LossVectors, LossEnergies, {FALSE})
    /\ tasks \in TaskLists(1, LossVectors)
    /\ Len(tasks) = 1
    /\ player = 1
    /\ Idle

NextLoss ==
    \/ LossCall
    \/ NextCall

SpecLoss == InitLoss /\ [][NextLoss]_vars

Called(name) == pc = "returned" /\ op = name

Caller == members[player]

\* the position in s of the value v, which s holds once
PositionIn(s, v) == CHOOSE k \in 1..Len(s) : s[k] = v

\* soloCost = 0: the abilities meet or exceed the difficulty on every dimension
MeetsEveryDimension(abilities, task) == \A i \in 1..Len(task) : abilities[i] >= task[i]

\* twice the unmet difficulty of the task against one ability vector
TwiceSolo(abilities, task) ==
    2 * SumTo([i \in 1..Len(task) |->
                  IF task[i] > abilities[i] THEN task[i] - abilities[i] ELSE 0], Len(task))

\* twice the partnership cost: the unmet difficulty against the elementwise
\* maximum of the two ability vectors (the cost itself is half of it)
UnmetByPair(a1, a2, task) ==
    SumTo([i \in 1..Len(task) |->
              IF task[i] > a1[i] /\ task[i] > a2[i]
              THEN task[i] - (IF a1[i] > a2[i] THEN a1[i] ELSE a2[i]) ELSE 0], Len(task))

\* The reserve of either phase is a quotient q bounded into [1, 3]; with
\* q = num / den it is ClampedReserve(num, den) / den.
ClampedReserve(num, den) == Max(den, Min(3 * den, num))

MemberWithId(id) == CHOOSE m \in 1..Len(members) : members[m].id = id

\* C1: no entry point raises; each returns a list.
C1_NeverRaises ==
    pc = "returned" => (~ret.raised /\ ret.value \in Seq(Int \cup Seq(Int)))

\* C2: every entry [task_index, partner_id] of the heuristic phase I rankers
\* names a task of the community and a member other than the caller whose
\* incapacitated flag is not set.
C2_PhaseIEntriesValid ==
    (Called("team_3.phaseIpreferences") \/ Called("team_9.phaseIpreferences")) =>
        \A k \in 1..Len(ret.value) :
            /\ ret.value[k][1] \in 0..(Len(tasks) - 1)
            /\ \E m \in 1..Len(members) :
                  /\ members[m].id = ret.value[k][2]
                  /\ m # player
                  /\ ~members[m].incapacitated

\* C3: the heuristic phase I rankers return no entry for a task the caller
\* could complete alone.
C3_NoSoloTaskInPhaseI ==
    (Called("team_3.phaseIpreferences") \/ Called("team_9.phaseIpreferences")) =>
        \A k \in 1..Len(ret.value) :
            ~MeetsEveryDimension(Caller.abilities, tasks[ret.value[k][1] + 1])

\* team_9 returned a partnership although the caller can do some task alone
C3_Witness ==
    /\ Called("team_9.phaseIpreferences")
    /\ ret.value # <<>>
    /\ \E t \in 1..Len(tasks) :
          /\ MeetsEveryDimension(Caller.abilities, tasks[t])
          /\ \E m \in 1..Len(members) :
                m # player /\ ~MeetsEveryDimension(members[m].abilities, tasks[t])

\* the caller's energy is below max(2, 0.25 x the community's average energy)
BelowPhaseIFloor ==
    LET n == Len(members)
        total == SumTo([m \in 1..n |-> members[m].energy], n)
    IN  4 * n * Caller.energy < Max(8 * n, total)

\* C8: team_3 phase I returns the empty list whenever the caller's energy is
\* below max(2, 0.25 x average energy).
C8_LowEnergyReturnsEmpty ==
    (Called("team_3.phaseIpreferences") /\ BelowPhaseIFloor) => ret.value = <<>>

\* the caller has energy 2 or more and is still below a quarter of the
\* average, and would have had a partnership to offer
C8_Witness ==
    /\ Called("team_3.phaseIpreferences")
    /\ BelowPhaseIFloor
    /\ Caller.energy >= 2
    /\ T3Choices(1) # <<>>
    /\ ret.value = <<>>

\* C10: every entry of team_3 phase I leaves the caller and the partner at
\* least the reserve (tasks per member, halved, bounded into [1, 3]) after
\* paying the partnership cost, and that cost is below 60% of the caller's
\* solo cost.
C10_PhaseIAcceptance ==
    Called("team_3.phaseIpreferences") =>
        \A k \in 1..Len(ret.value) :
            LET task == tasks[ret.value[k][1] + 1]
                partner == members[MemberWithId(ret.value[k][2])]
                den == 2 * Len(members)
                reserve == ClampedReserve(Len(tasks), den)
                unmet == UnmetByPair(Caller.abilities, partner.abilities, task)
            IN  /\ den * Caller.energy - Len(members) * unmet >= reserve
                /\ den * partner.energy - Len(members) * unmet >= reserve
                /\ 10 * unmet < 6 * TwiceSolo(Caller.abilities, task)

\* an entry with a positive cost, returned while the reserve is above 1
C10_Witness ==
    /\ Called("team_3.phaseIpreferences")
    /\ Len(tasks) > 2 * Len(members)
    /\ \E k \in 1..Len(ret.value) :
          UnmetByPair(Caller.abilities,
                      members[MemberWithId(ret.value[k][2])].abilities,
                      tasks[ret.value[k][1] + 1]) > 0

\* twice-the-member-count times the budget left after the first k accepted
\* tasks: energy minus the solo costs accepted so far (the reserve not yet
\* taken off)
ScaledEnergyAfter(k) ==
    2 * Len(members) *
        (Caller.energy
         - SumTo([j \in 1..k |->
                    TwiceSolo(Caller.abilities, tasks[selected_tasks[j] + 1]) \div 2], k))

PhaseIIReserveScaled == ClampedReserve(Len(tasks), 2 * Len(members))

\* C4: in team_3 phase II every returned task costs at most 70% of the
\* caller's energy, and in acceptance order the running budget (energy minus
\* reserve minus the costs accepted so far) is never negative and is at
\* least the reserve after every accepted task but possibly the last.
C4_PhaseIIBudget ==
    (Called("team_3.phaseIIpreferences") /\ ~ret.raised) =>
        /\ \A k \in 1..Len(ret.value) :
              10 * TwiceSolo(Caller.abilities, tasks[ret.value[k] + 1]) <= 14 * Caller.energy
        /\ \A k \in 1..Len(selected_tasks) :
              /\ ScaledEnergyAfter(k) - PhaseIIReserveScaled >= 0
              /\ k < Len(selected_tasks) =>
                    ScaledEnergyAfter(k) - PhaseIIReserveScaled >= PhaseIIReserveScaled

\* several tasks of positive cost were accepted and the last one took the
\* budget below the reserve
C4_Witness ==
    /\ Called("team_3.phaseIIpreferences")
    /\ ~ret.raised
    /\ Len(selected_tasks) >= 2
    /\ \A k \in 1..Len(selected_tasks) :
          TwiceSolo(Caller.abilities, tasks[selected_tasks[k] + 1]) > 0
    /\ ScaledEnergyAfter(Len(selected_tasks)) - PhaseIIReserveScaled < PhaseIIReserveScaled

\* the output permutes selected_tasks and keeps every task within its block
\* of the given size
ShuffledWithinGroups(size) ==
    /\ Len(ret.value) = Len(selected_tasks)
    /\ \A i \in 1..Len(selected_tasks) :
          /\ \E k \in 1..Len(ret.value) : ret.value[k] = selected_tasks[i]
          /\ (PositionIn(ret.value, selected_tasks[i]) - 1) \div size = (i - 1) \div size

\* C9 as stated: the groups have size ceil(acceptedCount / 3).
C9_GroupsOfCeilThird ==
    (Called("team_3.phaseIIpreferences") /\ ~ret.raised /\ selected_tasks # <<>>) =>
        ShuffledWithinGroups((Len(selected_tasks) + 2) \div 3)

\* C9 amended: the final shuffle of team_3 phase II only permutes tasks within
\* contiguous groups of size max(1, floor(acceptedCount / 3)) of the accepted
\* list, and the output is a permutation of that list.
C9_GroupsOfFloorThird ==
    (Called("team_3.phaseIIpreferences") /\ ~ret.raised /\ selected_tasks # <<>>) =>
        ShuffledWithinGroups(Max(1, Len(selected_tasks) \div 3))

\* seven tasks were accepted and the shuffle moved the one at position 3 to
\* position 4
C9_Witness ==
    /\ Called("team_3.phaseIIpreferences")
    /\ ~ret.raised
    /\ Len(selected_tasks) = 7
    /\ ret.value[4] = selected_tasks[3]

\* C7: a caller who meets every dimension of every task and has at least
\* twice the phase II reserve gets every task back from team_3 phase II.
C7_ZeroCostTasksIncluded ==
    ( /\ Called("team_3.phaseIIpreferences")
      /\ \A t \in 1..Len(tasks) : MeetsEveryDimension(Caller.abilities, tasks[t])
      /\ 2 * Len(members) * Caller.energy >= 2 * PhaseIIReserveScaled ) =>
        /\ ~ret.raised
        /\ \A t \in 1..Len(tasks) : \E k \in 1..Len(ret.value) : ret.value[k] = t - 1

\* C5: the partnership cost is at most the solo cost of either partner.
C5_PartnerNeverCostsMore ==
    Called("team_3.costs") =>
        /\ RLe(ret.value.partnership, RInt(ret.value.solo1))
        /\ RLe(ret.value.partnership, RInt(ret.value.solo2))

\* a partnership with a positive cost, cheaper than either partner alone
C5_Witness ==
    /\ Called("team_3.costs")
    /\ RLt(RInt(0), ret.value.partnership)
    /\ RLt(ret.value.partnership, RInt(ret.value.solo1))
    /\ RLt(ret.value.partnership, RInt(ret.value.solo2))
    /\ members[1].abilities # members[2].abilities

\* The columns a task can be given to, as numbers: with n members, the
\* number (i - 1) * n + j stands for the pair of the members at positions
\* i < j, and for the member at position i alone when i = j.
FirstOf(column) == ((column - 1) \div Len(members)) + 1
SecondOf(column) == ((column - 1) % Len(members)) + 1

ReferenceColumns ==
    {column \in 1..(Len(members) * Len(members)) : FirstOf(column) <= SecondOf(column)}

\* Twice the loss of giving task t to a column: loss_phase1 of the pair or
\* loss_phase2 of the member.  Every loss is a whole number of halves.
TwiceLossOf(t, column) ==
    LET first == members[FirstOf(column)]
        loss == IF FirstOf(column) < SecondOf(column)
                THEN loss_phase1(tasks[t], first, members[SecondOf(column)])
                ELSE loss_phase2(tasks[t], first.abilities, first.energy)
    IN  (2 * loss[1]) \div loss[2]

\* TwiceLossOf as a table, by task and by column number
TwiceLosses ==
    LET numbers == Len(members) * Len(members)
    IN  Filled([t \in 1..Len(tasks) |->
            Filled([column \in 1..numbers |->
                IF column \in ReferenceColumns THEN TwiceLossOf(t, column) ELSE 0],
                numbers)], Len(tasks))

RECURSIVE EveryAssignmentCostsAtLeast(_, _, _, _, _, _)
\* Every way of giving `left` of the tasks t..Len(tasks) to distinct columns
\* of `free`, added to acc (in halves), costs at least total.  A task may be
\* passed over while enough tasks remain.  No loss is negative, so a partial
\* assignment that has reached total needs no completing.
EveryAssignmentCostsAtLeast(loss, t, free, left, acc, total) ==
    \/ RLe(total, <<acc, 2>>)
    \/ /\ left > 0
       /\ \/ Len(tasks) - t + 1 < left
          \/ /\ \A column \in free :
                   EveryAssignmentCostsAtLeast(loss, t + 1, free \ {column}, left - 1,
                                               acc + loss[t][column], total)
             /\ EveryAssignmentCostsAtLeast(loss, t + 1, free, left, acc, total)

OvershootOfPair(a1, a2, task) ==
    SumTo([i \in 1..Len(task) |->
              LET best == IF a1[i] > a2[i] THEN a1[i] ELSE a2[i]
              IN  IF best > task[i] THEN best - task[i] ELSE 0], Len(task))

\* the absolute difference of the two agents' abilities, summed over the dimensions
MismatchOfPair(a1, a2, task) ==
    SumTo([i \in 1..Len(task) |->
              IF a1[i] > a2[i] THEN a1[i] - a2[i] ELSE a2[i] - a1[i]], Len(task))

CombinedEnergy == members[1].energy + members[2].energy

\* C11 as stated: loss_phase1 is the partnership cost (half the unmet
\* difficulty) plus half of what that cost exceeds the combined energy by,
\* plus the overshoot, plus the mismatch.  Counted in quarters.
C11_LossExtendsSplitCost ==
    Called("team_6.loss_phase1") =>
        LET a1 == members[1].abilities
            a2 == members[2].abilities
            unmet == UnmetByPair(a1, a2, tasks[1])
            over == IF unmet > 2 * CombinedEnergy THEN unmet - 2 * CombinedEnergy ELSE 0
        IN  REq(ret.value,
                <<2 * unmet + over + 4 * OvershootOfPair(a1, a2, tasks[1])
                  + 4 * MismatchOfPair(a1, a2, tasks[1]), 4>>)

\* C11 amended: loss_phase1 is the whole unmet difficulty against the
\* elementwise maximum of the two ability vectors (twice the partnership
\* cost), plus half of what that unmet difficulty exceeds the combined energy
\* by, plus the overshoot, plus the mismatch.  Counted in halves.
C11_LossExtendsUnmetDifficulty ==
    Called("team_6.loss_phase1") =>
        LET a1 == members[1].abilities
            a2 == members[2].abilities
            unmet == UnmetByPair(a1, a2, tasks[1])
            over == IF unmet > CombinedEnergy THEN unmet - CombinedEnergy ELSE 0
        IN  REq(ret.value,
                <<2 * unmet + over + 2 * OvershootOfPair(a1, a2, tasks[1])
                  + 2 * MismatchOfPair(a1, a2, tasks[1]), 2>>)

\* a loss in which the unmet difficulty exceeds a positive combined energy
\* and the overshoot and the mismatch are positive too
C11_Witness ==
    /\ Called("team_6.loss_phase1")
    /\ CombinedEnergy > 0
    /\ UnmetByPair(members[1].abilities, members[2].abilities, tasks[1]) > CombinedEnergy
    /\ OvershootOfPair(members[1].abilities, members[2].abilities, tasks[1]) > 0
    /\ MismatchOfPair(members[1].abilities, members[2].abilities, tasks[1]) > 0
====
